---- MODULE Spec2Model ----
(***************************************************************************)
(* Model of python-netsnmpagent's netsnmpAgent: the connection status that *)
(* the agent infers from net-snmp's log and index-stop callbacks, the      *)
(* start() sequence built on it, and the SNMP object registry guarded by   *)
(* that status.                                                            *)
(***************************************************************************)
EXTENDS Integers, Sequences, FiniteSets, TLC

\* ------------------------------------------------------------------------
\* Bounds
\* ------------------------------------------------------------------------

\* longest log message text, counted in tokens
MaxLen == 3

\* most rows a table is given
MaxRows == 2

\* most increment() calls in a row on one object
MaxIncrements == 2

\* ------------------------------------------------------------------------
\* Constants of the program
\* ------------------------------------------------------------------------

LOG_EMERG == 0
LOG_ALERT == 1
LOG_CRIT == 2
LOG_ERR == 3
LOG_WARNING == 4
LOG_NOTICE == 5
LOG_INFO == 6
LOG_DEBUG == 7

SNMP_CALLBACK_LIBRARY == 0
SNMP_CALLBACK_APPLICATION == 1
SNMP_CALLBACK_LOGGING == 4
SNMPD_CALLBACK_INDEX_STOP == 11

\* a minorID the index-stop callback is not registered for
OtherMinorID == SNMPD_CALLBACK_INDEX_STOP - 1

\* netsnmpAgentStatus
REGISTRATION == "REGISTRATION"
FIRSTCONNECT == "FIRSTCONNECT"
CONNECTFAILED == "CONNECTFAILED"
CONNECTED == "CONNECTED"
RECONNECTING == "RECONNECTING"

netsnmpAgentStatus == {REGISTRATION, FIRSTCONNECT, CONNECTFAILED, CONNECTED, RECONNECTING}

\* ------------------------------------------------------------------------
\* Log messages: a priority and a text.  A text is a sequence of tokens;
\* the tokens are the pieces of text the handler's regular expressions
\* tell apart.
\* ------------------------------------------------------------------------

TokWarning == "Warning: "
TokError == "Error: "
TokFailed == "Failed to "
TokMaster == " the agentx master agent"
TokConnected == "AgentX subagent connected"
TokDisconnected == "AgentX master disconnected us"
TokVersion == "NET-SNMP version 5.7.3 "
TokLF == "\n"

Tokens == {TokWarning, TokError, TokFailed, TokMaster, TokConnected, TokDisconnected, TokVersion, TokLF}

Texts == UNION {[1..n -> Tokens] : n \in 0..MaxLen}

\* the eight syslog levels and one value net-snmp never uses
Levels == LOG_EMERG..(LOG_DEBUG + 1)

snmp_log_message == [priority : Levels, msg : Texts]

NoMsg == [priority |-> -1, msg |-> <<>>]

priorities == (LOG_EMERG :> "Emergency") @@ (LOG_ALERT :> "Alert") @@ (LOG_CRIT :> "Critical") @@ (LOG_ERR :> "Error") @@ (LOG_WARNING :> "Warning") @@ (LOG_NOTICE :> "Notice") @@ (LOG_INFO :> "Info") @@ (LOG_DEBUG :> "Debug")

\* bytes.rstrip(b"\n"): drop every trailing linefeed
RECURSIVE rstrip(_)
rstrip(s) == IF s # <<>> /\ s[Len(s)] = TokLF THEN rstrip(SubSeq(s, 1, Len(s) - 1)) ELSE s

\* re.sub("^(Warning|Error): *", "", s): drop one heading at the very start
StripHeading(s) == IF s # <<>> /\ s[1] \in {TokWarning, TokError} THEN Tail(s) ELSE s

MsgText(m) == StripHeading(rstrip(m.msg))

\* re.match("Failed to .* the agentx master agent.*", t): anchored at the
\* start of t, and "." does not match a linefeed
MatchFailed(t) == /\ t # <<>>
                  /\ t[1] = TokFailed
                  /\ \E j \in 2..Len(t) : t[j] = TokMaster /\ \A i \in 2..(j - 1) : t[i] # TokLF

\* re.match("AgentX subagent connected", t)
MatchConnected(t) == t # <<>> /\ t[1] = TokConnected

\* re.match("AgentX master disconnected us.*", t)
MatchDisconnected(t) == t # <<>> /\ t[1] = TokDisconnected

\* the first branch taken for Warning messages only
IsConnectFailure_WarningOnly(msgprio, msgtext) == msgprio = "Warning"

\* the condition of the handler's first branch, with Python's precedence:
\* "and" binds tighter than "or"
IsConnectFailure(msgprio, msgtext) == \/ msgprio = "Warning"
                                      \/ (msgprio = "Error" /\ MatchFailed(msgtext))

IsConnect(msgprio, msgtext) == msgprio = "Info" /\ MatchConnected(msgtext)

\* the disconnect message looked for at the wrong priority
IsDisconnect_Notice(msgprio, msgtext) == msgprio = "Notice" /\ MatchDisconnected(msgtext)

IsDisconnect(msgprio, msgtext) == msgprio = "Info" /\ MatchDisconnected(msgtext)

\* a failure taken as fatal whenever no connection exists
FailureApplies_Unconnected(s) == s # CONNECTED

\* the first branch changes the status only during the first attempt
FailureApplies(s) == s = FIRSTCONNECT

\* status after _py_log_handler has seen (msgprio, msgtext) in status s
LogStatus(s, msgprio, msgtext) == IF IsConnectFailure(msgprio, msgtext)
                                  THEN (IF FailureApplies(s) THEN CONNECTFAILED ELSE s)
                                  ELSE IF IsConnect(msgprio, msgtext) THEN CONNECTED
                                  ELSE IF IsDisconnect(msgprio, msgtext) THEN RECONNECTING
                                  ELSE s

\* the early "return 0" that skips the log sink
LogSuppressed(s, msgprio, msgtext) == IsConnectFailure(msgprio, msgtext) /\ FailureApplies(s)

\* the index-stop callback reacting to the wrong minorID
IndexStopStatus_Other(s, minorID) == IF minorID = OtherMinorID THEN RECONNECTING ELSE s

\* status after _py_index_stop_callback was called with minorID
IndexStopStatus(s, minorID) == IF minorID = SNMPD_CALLBACK_INDEX_STOP THEN RECONNECTING ELSE s

\* ------------------------------------------------------------------------
\* Configuration and registry inputs
\* ------------------------------------------------------------------------

\* MasterSocket values; "None" is the default of the constructor
Endpoints == {"None", "tcp:localhost:705"}

\* LogHandler given or not
Sinks == {"LogHandler", "stdout"}

NoCall == [sink |-> "none", prio |-> "", text |-> <<>>]

\* oidstr arguments: None (no registration) or an OID string
NoOid == "None"
OidStrs == {NoOid, "TEST-MIB::a"}
RegOids == OidStrs \ {NoOid}
Contexts == {"", "ctx"}
ScalarTypes == {"Integer32", "Counter32"}

\* the registry: the keys of self._objs and, of the object stored under
\* each (context, oidstr), the type name, who else refers to it (the caller
\* holds it as its variable object or as its table, or has dropped it) and,
\* once dropped, its value
NoObj == "none"
EmptyRegistry == [keys |-> {},
                  at |-> [k \in Contexts \X RegOids |-> NoObj],
                  who |-> [k \in Contexts \X RegOids |-> "none"],
                  val |-> [k \in Contexts \X RegOids |-> {}]]

SetObj_AnyContext(reg, context, oidstr, obj, who, val) == [keys |-> reg.keys \cup {context},
                                                           at |-> [k \in DOMAIN reg.at |-> IF k[2] = oidstr THEN obj ELSE reg.at[k]],
                                                           who |-> [k \in DOMAIN reg.who |-> IF k[2] = oidstr THEN who ELSE reg.who[k]],
                                                           val |-> [k \in DOMAIN reg.val |-> IF k[2] = oidstr THEN (IF who = "dropped" THEN {val} ELSE {}) ELSE reg.val[k]]]

\* self._objs[context][oidstr] = obj, on a defaultdict(dict)
SetObj(reg, context, oidstr, obj, who, val) == [keys |-> reg.keys \cup {context},
                                                at |-> [reg.at EXCEPT ![<<context, oidstr>>] = obj],
                                                who |-> [reg.who EXCEPT ![<<context, oidstr>>] = who],
                                                val |-> [reg.val EXCEPT ![<<context, oidstr>>] = IF who = "dropped" THEN {val} ELSE {}]]

NoExc == [type |-> "none", msg |-> <<>>]
netsnmpAgentException(msg) == [type |-> "netsnmpAgentException", msg |-> msg]

\* the (majorID, minorID) pairs the two callbacks are called with
NoCb == <<-1, -1>>
LogCb == <<SNMP_CALLBACK_LIBRARY, SNMP_CALLBACK_LOGGING>>
MinorIDs == {OtherMinorID, SNMPD_CALLBACK_INDEX_STOP}

\* ------------------------------------------------------------------------
\* Integers.  A Python int is unbounded and a C integer has the width of
\* its type, so both are kept as bytes, least significant first: a Python
\* int as its two's complement bytes below an endless sign extension
\* (neg), a C integer as exactly sizeof(type) bytes.
\* ------------------------------------------------------------------------

Byte == 0..255

\* the byte a negative or non-negative int is extended with
SignByte(neg) == IF neg THEN 255 ELSE 0

RECURSIVE Strip(_, _)
\* bs without the high bytes that repeat the sign extension
Strip(neg, bs) == IF bs # <<>> /\ bs[Len(bs)] = SignByte(neg)
                  THEN Strip(neg, SubSeq(bs, 1, Len(bs) - 1))
                  ELSE bs

\* the Python int with sign extension neg above the bytes bs
PyInt(neg, bs) == [neg |-> neg, b |-> Strip(neg, bs)]

\* byte i of the int v
ByteOf(v, i) == IF i <= Len(v.b) THEN v.b[i] ELSE SignByte(v.neg)

Zero == PyInt(FALSE, <<>>)
One == PyInt(FALSE, <<1>>)
MinusOne == PyInt(TRUE, <<>>)

\* "if val": any int but 0 is true
Truthy(v) == v # Zero

Shr32_Wide(v) == PyInt(v.neg, SubSeq(v.b, 9, Len(v.b)))
\* val >> 32, an arithmetic shift
Shr32(v) == PyInt(v.neg, SubSeq(v.b, 5, Len(v.b)))

\* val >> 64
Shr64(v) == PyInt(v.neg, SubSeq(v.b, 9, Len(v.b)))

\* val & 0xFFFFFFFF
And32(v) == PyInt(FALSE, [i \in 1..4 |-> ByteOf(v, i)])

\* val & 0xFFFFFFFFFFFFFFFF
And64(v) == PyInt(FALSE, [i \in 1..8 |-> ByteOf(v, i)])

\* val << 32
Shl32(v) == PyInt(v.neg, <<0, 0, 0, 0>> \o v.b)

RECURSIVE BitOr(_, _, _)
\* x | y for two numbers below 2^bits
BitOr(x, y, bits) == IF bits = 0 THEN 0
                     ELSE (IF x % 2 = 1 \/ y % 2 = 1 THEN 1 ELSE 0) + 2 * BitOr(x \div 2, y \div 2, bits - 1)

Longer(v, w) == IF Len(v.b) >= Len(w.b) THEN Len(v.b) ELSE Len(w.b)

\* v | w
Or(v, w) == PyInt(v.neg \/ w.neg, [i \in 1..Longer(v, w) |-> BitOr(ByteOf(v, i), ByteOf(w, i), 8)])

RECURSIVE Carry(_, _, _)
\* the carry into byte i of v + w
Carry(v, w, i) == IF i = 1 THEN 0
                  ELSE (ByteOf(v, i - 1) + ByteOf(w, i - 1) + Carry(v, w, i - 1)) \div 256

\* byte i of v + w
SumByte(v, w, i) == (ByteOf(v, i) + ByteOf(w, i) + Carry(v, w, i)) % 256

\* v + w: one byte more than the longer operand holds the sum and its sign
Add(v, w) == LET n == Longer(v, w) + 1
             IN PyInt(SumByte(v, w, n) >= 128, [i \in 1..n |-> SumByte(v, w, i)])

\* ctypes integer types: the constructor and the value setter keep the low
\* size bytes of a Python int without any overflow check
c_int_set(size, v) == [i \in 1..size |-> ByteOf(v, i)]

\* .value of an unsigned ctypes integer
c_unsigned_value(bs) == PyInt(FALSE, bs)

\* .value of a signed ctypes integer
c_signed_value(bs) == PyInt(bs[Len(bs)] >= 128, bs)

\* sizeof(long) of the builds python runs on: 4 (ILP32, 64-bit Windows) or
\* 8 (LP64)
SizeofLong == {4, 8}

\* sizeof(unsigned int)
SizeofInt == 4

\* counter64: a structure of the two unsigned longs high and low, with a
\* value property; the setter
counter64_set(long, val) == <<c_int_set(long, Shr32(val)), c_int_set(long, And32(val))>>

\* the getter
counter64_value(c) == Or(Shl32(c_unsigned_value(c[1])), c_unsigned_value(c[2]))

\* ------------------------------------------------------------------------
\* IPv4 address strings: the four parts between the dots, each a sequence
\* of decimal digits
\* ------------------------------------------------------------------------

RECURSIVE ParseDigits(_, _)
\* the number the digits ds denote in the given base
ParseDigits(ds, base) == IF ds = <<>> THEN 0
                         ELSE ParseDigits(SubSeq(ds, 1, Len(ds) - 1), base) * base + ds[Len(ds)]

\* inet_aton() reads a part with a leading 0 as octal, as strtoul(.., 0)
\* does
PartBase(ds) == IF Len(ds) > 1 /\ ds[1] = 0 THEN 8 ELSE 10

PartOk(ds) == /\ ds # <<>>
              /\ \A i \in DOMAIN ds : ds[i] < PartBase(ds)
              /\ ParseDigits(ds, PartBase(ds)) \in Byte

\* socket.inet_aton(s) accepts s
inet_aton_ok(s) == Len(s) = 4 /\ \A i \in 1..4 : PartOk(s[i])

\* socket.inet_aton(s): the four bytes of the address in network order
inet_aton(s) == [i \in 1..4 |-> ParseDigits(s[i], PartBase(s[i]))]

RECURSIVE Digits(_)
\* the decimal digits of n
Digits(n) == IF n < 10 THEN <<n>> ELSE Append(Digits(n \div 10), n % 10)

\* socket.inet_ntoa(packed)
inet_ntoa(packed) == [i \in 1..4 |-> Digits(packed[i])]

Reverse(bs) == [i \in 1..Len(bs) |-> bs[Len(bs) + 1 - i]]

\* the byte orders of the builds python runs on
ByteOrders == {"little", "big"}

\* the bytes read in network order on every build
unpack_I_Network(order, packed) == PyInt(FALSE, Reverse(packed))

\* struct.unpack("I", packed)[0]: the unsigned int whose bytes in memory
\* are packed, as an int
unpack_I(order, packed) == PyInt(FALSE, IF order = "little" THEN packed ELSE Reverse(packed))

\* struct.pack("I", v): the bytes in memory of the unsigned int v
pack_I(order, v) == LET bs == c_int_set(SizeofInt, v)
                    IN IF order = "little" THEN bs ELSE Reverse(bs)

\* struct.pack("!I", v): the bytes of v in network order
pack_netI(v) == Reverse(c_int_set(SizeofInt, v))

IP_0_0_0_0 == <<<<0>>, <<0>>, <<0>>, <<0>>>>

\* ------------------------------------------------------------------------
\* SNMP variable objects
\* ------------------------------------------------------------------------

\* Python values passed to and returned by the API: None, an int, a str
\* (coll holds the members of a collection)
None == [type |-> "NoneType", int |-> Zero, str |-> <<>>, coll |-> {}]
int(v) == [type |-> "int", int |-> v, str |-> <<>>, coll |-> {}]
str(s) == [type |-> "str", int |-> Zero, str |-> s, coll |-> {}]

ASN_INTEGER == 2
ASN_OCTET_STR == 4
ASN_APPLICATION == 64
ASN_IPADDRESS == ASN_APPLICATION
ASN_COUNTER == ASN_APPLICATION + 1
ASN_UNSIGNED == ASN_APPLICATION + 2
ASN_GAUGE == ASN_APPLICATION + 2
ASN_TIMETICKS == ASN_APPLICATION + 3
ASN_COUNTER64 == ASN_APPLICATION + 6

HANDLER_CAN_GETANDGETNEXT == 1
HANDLER_CAN_SET == 2
HANDLER_CAN_RONLY == HANDLER_CAN_GETANDGETNEXT
HANDLER_CAN_RWRITE == HANDLER_CAN_GETANDGETNEXT + HANDLER_CAN_SET

\* the fixed-size integer types of netsnmpagent.py and netsnmpvartypes.py
IntTypes == {"Integer32", "Unsigned32", "Counter32", "Counter64", "TimeTicks", "Gauge32"}
StringTypes == {"OctetString", "DisplayString"}

\* the maximum string size of OctetString and DisplayString
MAX_STRING_SIZE == 1024

\* the byte strings: sequences of character codes.  b() returns a byte
\* string as it is, and u() decodes ASCII bytes to the same characters
b(s) == [i \in 1..Len(s) |-> s[i] % 256]
u(s) == [i \in 1..Len(s) |-> s[i] % 128]

\* ctypes.create_string_buffer(init, size) and "buffer.value = val" raise
\* ValueError unless val fits the char array
c_char_fits_Any(size, val) == TRUE
c_char_fits(size, val) == Len(val) <= size

\* the array after "buffer.value = val": the bytes of val, and a
\* terminating NUL if there is room for it
c_char_set(buffer, val) == [i \in 1..Len(buffer) |-> IF i <= Len(val) THEN val[i]
                                                     ELSE IF i = Len(val) + 1 THEN 0
                                                     ELSE buffer[i]]

\* "buffer.value": the bytes before the first NUL
c_char_value(buffer) == LET nuls == {i \in 1..Len(buffer) : buffer[i] = 0}
                        IN IF nuls = {} THEN buffer
                           ELSE SubSeq(buffer, 1, (CHOOSE i \in nuls : \A j \in nuls : i <= j) - 1)

\* create_string_buffer(init, size), where init fits
create_string_buffer(init, size) == c_char_set([i \in 1..size |-> 0], init)

\* "ctype" of a variable type
ctype(type) == CASE type = "Integer32" -> "c_long"
                 [] type = "Counter64" -> "counter64"
                 [] type = "IpAddress" -> "c_uint"
                 [] type \in StringTypes -> "create_string_buffer"
                 [] OTHER -> "c_ulong"

\* "asntype" of a variable type
asntype(type) == CASE type = "Integer32" -> ASN_INTEGER
                   [] type = "Unsigned32" -> ASN_UNSIGNED
                   [] type = "Counter32" -> ASN_COUNTER
                   [] type = "Counter64" -> ASN_COUNTER64
                   [] type = "TimeTicks" -> ASN_TIMETICKS
                   [] type = "Gauge32" -> ASN_GAUGE
                   [] type = "IpAddress" -> ASN_IPADDRESS
                   [] type \in StringTypes -> ASN_OCTET_STR
                   [] OTHER -> 0

\* the types that have an increment() method
HasIncrement(type) == asntype(type) \in {ASN_COUNTER, ASN_COUNTER64} \/ type = "Gauge32"

\* an object: its type, the sizeof(long) and byte order of the build it
\* lives in, the fields of its _cvar, whether it has a watcher (is
\* registered), the handler modes it was registered with and the writable
\* argument it was made with, its initval argument until its value is first
\* written, the argument of update() while it is the last write, its
\* _data_size and _max_size and the data_size of its watcher
NoVar == [type |-> "none", long |-> 0, order |-> "", cvar |-> <<>>, watcher |-> FALSE, modes |-> 0, writable |-> FALSE, initval |-> None, updated |-> None,
          data_size |-> 0, max_size |-> 0, watcher_data_size |-> 0]

\* ctypes.sizeof(self._cvar) of the integer types
sizeof(type, long) == IF ctype(type) = "counter64" THEN 2 * long
                      ELSE IF ctype(type) = "c_uint" THEN SizeofInt
                      ELSE long

\* ctype(val), and "_cvar.value = val"
cvar_set(type, long, val) == IF ctype(type) = "counter64" THEN counter64_set(long, val)
                             ELSE IF ctype(type) = "c_uint" THEN <<c_int_set(SizeofInt, val)>>
                             ELSE <<c_int_set(long, val)>>

\* "_cvar.value"
cvar_value(type, cvar) == IF ctype(type) = "counter64" THEN counter64_value(cvar)
                          ELSE IF ctype(type) = "c_long" THEN c_signed_value(cvar[1])
                          ELSE c_unsigned_value(cvar[1])

\* 0xFFFFFFFF
ULONG_MAX == PyInt(FALSE, <<255, 255, 255, 255>>)

UpdateVal_GaugeWraps(type, val) == IF type \in {"Counter32", "Gauge32"} /\ Truthy(Shr32(val)) THEN And32(val)
                                   ELSE IF type = "Counter64" /\ Truthy(Shr64(val)) THEN And64(val)
                                   ELSE val
\* the value update(val) stores: a Counter32 and a Counter64 cut off,
\* a Gauge32 restricted
UpdateVal(type, val) == IF type = "Counter32" /\ Truthy(Shr32(val)) THEN And32(val)
                        ELSE IF type = "Counter64" /\ Truthy(Shr64(val)) THEN And64(val)
                        ELSE IF type = "Gauge32" /\ Truthy(Shr32(val)) THEN ULONG_MAX
                        ELSE val

\* the address update(val) of an IpAddress converts
UpdateAddr(val) == IF val.type = "str" /\ val.str # <<>> THEN val.str ELSE IP_0_0_0_0

\* the exception update(val) of a string object ends with: the char array
\* rejects a val that does not fit, the length check comes after the
\* assignment, and an object without a watcher has no _watcher attribute
UpdateStrExc(obj, val) == IF ~c_char_fits(Len(obj.cvar[1]), val.str) THEN [type |-> "ValueError", msg |-> <<"string too long">>]
                          ELSE IF Len(val.str) > obj.max_size THEN netsnmpAgentException(<<"Value passed to update() truncated">>)
                          ELSE IF ~obj.watcher THEN [type |-> "AttributeError", msg |-> <<"_watcher">>]
                          ELSE NoExc

\* the string object obj after obj.update(val): what is assigned before
\* the exception stays assigned
UpdateStr(obj, val) == IF ~c_char_fits(Len(obj.cvar[1]), val.str) THEN obj
                       ELSE LET set == [obj EXCEPT !.cvar = <<c_char_set(obj.cvar[1], val.str)>>, !.initval = None, !.updated = val]
                            IN IF Len(val.str) > obj.max_size THEN set
                               ELSE [set EXCEPT !.data_size = Len(val.str),
                                                !.watcher_data_size = IF obj.watcher THEN Len(val.str) ELSE @]

\* the object obj after obj.update(val)
Update(obj, val) == IF obj.type \in StringTypes THEN UpdateStr(obj, val)
                    ELSE IF obj.type = "IpAddress"
                    THEN [obj EXCEPT !.cvar = cvar_set(obj.type, obj.long, unpack_I(obj.order, inet_aton(UpdateAddr(val)))), !.initval = None, !.updated = val]
                    ELSE [obj EXCEPT !.cvar = cvar_set(obj.type, obj.long, UpdateVal(obj.type, val.int)), !.initval = None, !.updated = val]

\* obj.value()
Value(obj) == IF obj.type \in StringTypes
              THEN str(u(c_char_value(obj.cvar[1])))
              ELSE IF obj.type = "IpAddress"
              THEN str(inet_ntoa(pack_I(obj.order, cvar_value(obj.type, obj.cvar))))
              ELSE int(cvar_value(obj.type, obj.cvar))

\* the C integer obj.cref(is_table_index) points to
Cref(obj, is_table_index) == IF obj.type = "IpAddress" /\ is_table_index
                             THEN c_int_set(SizeofInt, unpack_I(obj.order, pack_netI(cvar_value(obj.type, obj.cvar))))
                             ELSE obj.cvar[1]

\* handler_modes of _prepareRegistration
handler_modes_Swapped(writable) == IF writable THEN HANDLER_CAN_RONLY ELSE HANDLER_CAN_RWRITE

handler_modes(writable) == IF writable THEN HANDLER_CAN_RWRITE ELSE HANDLER_CAN_RONLY

\* the constructor of an integer type: "initval" of the type's properties
\* replaces None, the ctype is constructed from it
NewVar(type, long, order, initval, oidstr, writable) ==
  [type |-> type, long |-> long, order |-> order,
   cvar |-> cvar_set(type, long, IF initval = None THEN Zero ELSE initval.int),
   watcher |-> oidstr # NoOid,
   modes |-> IF oidstr # NoOid THEN handler_modes(writable) ELSE 0,
   writable |-> writable,
   initval |-> initval,
   updated |-> None,
   data_size |-> sizeof(type, long),
   max_size |-> sizeof(type, long),
   watcher_data_size |-> IF oidstr # NoOid THEN sizeof(type, long) ELSE 0]

\* the larger of two numbers
max(m, n) == IF m >= n THEN m ELSE n

\* the constructor of a string type, for an initval that fits: "" replaces
\* None and the buffer is made of b(initval) and the maximum size
NewStr(type, initval, oidstr, writable) ==
  LET cvar == create_string_buffer(b(IF initval = None THEN <<>> ELSE initval.str), MAX_STRING_SIZE)
  IN [type |-> type, long |-> 0, order |-> "",
      cvar |-> <<cvar>>,
      watcher |-> oidstr # NoOid,
      modes |-> IF oidstr # NoOid THEN handler_modes(writable) ELSE 0,
      writable |-> writable,
      initval |-> initval,
      updated |-> None,
      data_size |-> Len(c_char_value(cvar)),
      max_size |-> max(Len(c_char_value(cvar)), MAX_STRING_SIZE),
      watcher_data_size |-> IF oidstr # NoOid THEN Len(c_char_value(cvar)) ELSE 0]

\* the constructor of IpAddress: c_uint(0), then update(initval)
NewIpAddress(long, order, initval, oidstr, writable) ==
  LET obj == [type |-> "IpAddress", long |-> long, order |-> order,
              cvar |-> <<c_int_set(SizeofInt, Zero)>>,
              watcher |-> oidstr # NoOid,
              modes |-> IF oidstr # NoOid THEN handler_modes(writable) ELSE 0,
              writable |-> writable,
              initval |-> initval,
              updated |-> None,
              data_size |-> SizeofInt,
              max_size |-> SizeofInt,
              watcher_data_size |-> IF oidstr # NoOid THEN SizeofInt ELSE 0]
  IN [Update(obj, initval) EXCEPT !.initval = initval, !.updated = None]

\* a table: whether one was made, the number of rows of its dataset and
\* its _counterobj, None or the caller's object
NoTable == [made |-> FALSE, rows |-> 0, counterobj |-> "None"]

\* the response to an SNMP request: the request, the error status, the
\* value in it and the value of the last SET that was accepted since the
\* caller entered agent_check_and_process()
NoPdu == [op |-> "none", err |-> "noError", val |-> Zero, set |-> None]

\* the value an SNMP response carries for the fields cvar: INTEGER,
\* Gauge32, Counter32 and TimeTicks are 32 bits on the wire and Counter64
\* is two halves of 32 bits, whatever sizeof(long) is
asn_value(type, cvar) == IF ctype(type) = "counter64"
                         THEN Or(Shl32(And32(c_unsigned_value(cvar[1]))), And32(c_unsigned_value(cvar[2])))
                         ELSE IF ctype(type) = "c_long"
                         THEN c_signed_value(c_int_set(SizeofInt, c_signed_value(cvar[1])))
                         ELSE And32(c_unsigned_value(cvar[1]))

\* the values an SNMP request can carry for a type
InRange(type, val) == IF ctype(type) = "counter64" THEN val = And64(val)
                      ELSE IF ctype(type) = "c_long" THEN val = c_signed_value(c_int_set(SizeofInt, val))
                      ELSE val = And32(val)

\* ------------------------------------------------------------------------
\* The net-snmp test environment
\* ------------------------------------------------------------------------

SIGTERM == 15
SIGKILL == 9

\* a netsnmpTestEnv whose constructor has returned: the temporary directory
\* exists, check_call() has returned because snmpd has gone into the
\* background, and the daemon has not created the file named by -p yet.
\* pc is where __del__ is, sigs the signals the process has got, sent the
\* signals os.kill() was called with, raised whether an os.kill() call has
\* raised OSError, ticked whether time.clock() has left starttime, cmd the
\* last SNMP client operation and its return code
NewTestEnv == [pc |-> "alive", tmpdir |-> TRUE, pidfile |-> "absent", snmpd |-> TRUE,
               sigs |-> <<>>, sent |-> <<>>, raised |-> FALSE, ticked |-> FALSE, exc |-> "none",
               cmd |-> [op |-> "none", rc |-> 0]]

\* ------------------------------------------------------------------------
\* State
\* ------------------------------------------------------------------------

VARIABLES
  MasterSocket,  \* self.MasterSocket
  LogHandler,    \* self.LogHandler: "LogHandler" if given, "stdout" if not
  status,        \* self._status
  objs,          \* self._objs, the registry of SNMP objects
  pc,            \* where the caller is: "idle", or inside "init_snmp" or "agent_check_and_process"
  started,       \* start() was called "never", "once" or "again"
  notes,         \* what the current start() call was notified of last
  failed,        \* the current start() call has seen the status become CONNECTFAILED
  last,          \* the API call made last
  exc,           \* the exception it raised
  cb,            \* "returned" when a callback function has just run, else "none"
  cbid,          \* the majorID and minorID it was called with
  serverarg,     \* the snmp_log_message it was called with
  cbprev,        \* the status it was entered in
  logcall,       \* the call it made to the log sink
  cbexc,         \* the exception raised inside it
  var,           \* the variable object the caller holds
  ret,           \* what the last value(), cref() or registry getter returned
  incs,          \* the increment() calls made since var was last set
  table,         \* the Table object the caller holds
  pdu,           \* the response to the last SNMP request
  testenv        \* the netsnmpTestEnv instance, its snmpd process and its files

vars == <<MasterSocket, LogHandler, status, objs, pc, started, notes, failed, last, exc, cb, cbid, serverarg, cbprev, logcall, cbexc, var, ret, incs, table, pdu, testenv>>

config == <<MasterSocket, LogHandler>>
api == <<pc, started, last, exc>>
dispatch == <<cb, cbid, serverarg, cbprev, logcall, cbexc>>
values == <<var, ret, incs, table, pdu>>

Init == /\ MasterSocket \in Endpoints
        /\ LogHandler \in Sinks
        /\ status = REGISTRATION
        /\ objs = EmptyRegistry
        /\ pc = "idle"
        /\ started = "never"
        /\ notes = "none"
        /\ failed = FALSE
        /\ last = "__init__"
        /\ exc = NoExc
        /\ cb = "none"
        /\ cbid = NoCb
        /\ serverarg = NoMsg
        /\ cbprev = REGISTRATION
        /\ logcall = NoCall
        /\ cbexc = "none"
        /\ var = NoVar
        /\ ret = None
        /\ incs = 0
        /\ table = NoTable
        /\ pdu = NoPdu
        /\ testenv = NewTestEnv

\* ------------------------------------------------------------------------
\* Callbacks
\* ------------------------------------------------------------------------

\* net-snmp calls callbacks only while the caller is inside one of its
\* functions
InNetSnmp == pc \in {"init_snmp", "agent_check_and_process"}

\* what a start() call is notified of: a log message of priority Warning or
\* Error with the connect-failure text during the first attempt, or
\* anything else
NoteKind(s, id, m) == IF /\ id = LogCb
                         /\ s = FIRSTCONNECT
                         /\ m.priority \in {LOG_WARNING, LOG_ERR}
                         /\ MatchFailed(MsgText(m))
                      THEN "failure" ELSE "other"

\* net-snmp calls _py_log_handler with message m as serverarg; the action
\* is the handler from the cast of serverarg to its "return 0"
_py_log_handler(m) == /\ cb' = "returned"
                      /\ cbid' = LogCb
                      /\ serverarg' = m
                      /\ cbprev' = status
                      /\ notes' = IF pc = "init_snmp" THEN NoteKind(status, LogCb, m) ELSE notes
                      /\ IF m.priority \notin DOMAIN priorities
                         THEN /\ cbexc' = "KeyError"
                              /\ UNCHANGED <<status, logcall>>
                         ELSE LET msgprio == priorities[m.priority]
                                  msgtext == MsgText(m)
                              IN /\ cbexc' = "none"
                                 /\ status' = LogStatus(status, msgprio, msgtext)
                                 /\ logcall' = IF LogSuppressed(status, msgprio, msgtext)
                                               THEN NoCall
                                               ELSE [sink |-> LogHandler, prio |-> msgprio, text |-> msgtext]
                      /\ failed' = (failed \/ (pc = "init_snmp" /\ status' = CONNECTFAILED))
                      /\ UNCHANGED <<config, testenv, values, objs, api>>

\* net-snmp calls _py_index_stop_callback with minorID
_py_index_stop_callback(minorID) == /\ cb' = "returned"
                                    /\ cbid' = <<SNMP_CALLBACK_APPLICATION, minorID>>
                                    /\ cbprev' = status
                                    /\ notes' = IF pc = "init_snmp" THEN NoteKind(status, <<SNMP_CALLBACK_APPLICATION, minorID>>, NoMsg) ELSE notes
                                    /\ status' = IndexStopStatus(status, minorID)
                                    /\ failed' = (failed \/ (pc = "init_snmp" /\ status' = CONNECTFAILED))
                                    /\ UNCHANGED <<config, testenv, values, objs, api, serverarg, logcall, cbexc>>

\* net-snmp logs one of msgs: snmp_call_callbacks() calls the function
\* registered for SNMP_CALLBACK_LIBRARY / SNMP_CALLBACK_LOGGING
snmp_log(msgs) == /\ InNetSnmp
                  /\ cb = "none"
                  /\ \E m \in msgs : _py_log_handler(m)

\* net-snmp opens or checks its master session: snmp_call_callbacks() calls
\* the function registered for SNMP_CALLBACK_APPLICATION
snmp_index_stop == /\ InNetSnmp
                   /\ cb = "none"
                   /\ \E minorID \in MinorIDs : _py_index_stop_callback(minorID)

\* the callback function has returned and net-snmp goes on
callback_return == /\ cb = "returned"
                   /\ cb' = "none"
                   /\ cbid' = NoCb
                   /\ serverarg' = NoMsg
                   /\ cbprev' = REGISTRATION
                   /\ logcall' = NoCall
                   /\ cbexc' = "none"
                   /\ UNCHANGED <<config, testenv, values, status, objs, api, notes, failed>>

\* ------------------------------------------------------------------------
\* start()
\* ------------------------------------------------------------------------

\* start() attempting a connection while one is being retried
StartConnects_Retrying(s) == s # CONNECTED

\* start() attempts a connection unless one exists or is being retried
StartConnects(s) == s # CONNECTED /\ s # RECONNECTING

\* start() failing unless the connection is up
StartFailed_Unconnected(s) == s # CONNECTED

\* what start() looks for after init_snmp() has returned
StartFailed(s) == s = CONNECTFAILED

ConnectErrorMsg(socket) == <<"Error connecting to snmpd instance at \"", socket, "\" -- incorrect \"MasterSocket\" or snmpd not running?">>

\* start(), up to and including its call of init_snmp(); notes is "skipped"
\* when start() returns without calling it
start == /\ pc = "idle"
         /\ started' = IF started = "never" THEN "once" ELSE "again"
         /\ last' = "start"
         /\ exc' = NoExc
         /\ IF StartConnects(status)
            THEN status' = FIRSTCONNECT /\ pc' = "init_snmp" /\ notes' = "none"
            ELSE UNCHANGED <<status, pc>> /\ notes' = "skipped"
         /\ failed' = FALSE
         /\ UNCHANGED <<config, testenv, values, objs, dispatch>>

\* init_snmp() returns and start() inspects the status
start_return == /\ pc = "init_snmp"
                /\ cb = "none"
                /\ pc' = "idle"
                /\ exc' = IF StartFailed(status)
                          THEN netsnmpAgentException(ConnectErrorMsg(MasterSocket))
                          ELSE NoExc
                /\ UNCHANGED <<config, testenv, values, status, objs, started, notes, failed, last, dispatch>>

\* ------------------------------------------------------------------------
\* check_and_process() and shutdown()
\* ------------------------------------------------------------------------

\* check_and_process() calls agent_check_and_process()
check_and_process == /\ pc = "idle"
                     /\ pc' = "agent_check_and_process"
                     /\ last' = "check_and_process"
                     /\ exc' = NoExc
                     /\ notes' = "none"
                     /\ failed' = FALSE
                     /\ ret' = None
                     /\ pdu' = NoPdu
                     /\ UNCHANGED <<config, testenv, status, objs, started, dispatch, var, incs, table>>

\* agent_check_and_process() returns
check_and_process_return == /\ pc = "agent_check_and_process"
                            /\ cb = "none"
                            /\ pc' = "idle"
                            /\ UNCHANGED <<config, testenv, values, status, objs, started, notes, failed, last, exc, dispatch>>

\* shutdown() taking the agent back to the registration phase
shutdown_Reset == /\ pc = "idle"
                  /\ last' = "shutdown"
                  /\ status' = REGISTRATION
                  /\ exc' = NoExc
                  /\ notes' = "none"
                  /\ failed' = FALSE
                  /\ UNCHANGED <<config, testenv, values, objs, pc, started, dispatch>>

\* shutdown()
shutdown == /\ pc = "idle"
            /\ last' = "shutdown"
            /\ exc' = NoExc
            /\ notes' = "none"
            /\ failed' = FALSE
            /\ UNCHANGED <<config, testenv, values, status, objs, pc, started, dispatch>>

\* ------------------------------------------------------------------------
\* SNMP object registration
\* ------------------------------------------------------------------------

\* registration closed only once a connection was made
RegistrationAllowed_UntilConnected(s) == s \in {REGISTRATION, FIRSTCONNECT, CONNECTFAILED}

\* _prepareRegistration()'s first check
RegistrationAllowed(s) == s = REGISTRATION

\* outcomes of the net-snmp calls a registration makes
LibOutcomes == {"ok", "read_objid", "register"}

\* the exception _prepareRegistration() and the registering call end with
RegistrationExc(s, lib, regmsg) == IF ~RegistrationAllowed(s)
                                   THEN netsnmpAgentException(<<"Attempt to register SNMP object after agent has been started!">>)
                                   ELSE IF lib = "read_objid" THEN netsnmpAgentException(<<"read_objid() failed!">>)
                                   ELSE IF lib = "register" THEN netsnmpAgentException(<<regmsg>>)
                                   ELSE NoExc

\* the registering part of a constructor: obj is registered under
\* (context, oidstr) unless an exception ends the constructor first
Register(obj, oidstr, context, lib, regmsg, who, val) == LET e == RegistrationExc(status, lib, regmsg)
                                                         IN /\ exc' = e
                                                            /\ objs' = IF e = NoExc THEN SetObj(objs, context, oidstr, obj, who, val) ELSE objs

\* the object the caller holds after a constructor returned new: the
\* caller keeps it or drops it
Held(new, keep) == IF keep THEN new ELSE var

\* the object a table counts its rows in stays the one held
MayKeep(keep) == keep => table.counterobj # "var"

\* Integer32(), Counter32(), ...: the classes made by VarTypeClass, on a
\* build with the given sizeof(long)
create_vartype_class(type, initval, oidstr, writable, context, lib, long, keep) ==
  /\ pc = "idle"
  /\ MayKeep(keep)
  /\ last' = "create"
  /\ notes' = "none"
  /\ failed' = FALSE
  /\ ret' = None
  /\ pdu' = NoPdu
  /\ IF type \in StringTypes /\ ~c_char_fits(MAX_STRING_SIZE, b(initval.str))
     THEN exc' = [type |-> "ValueError", msg |-> <<"string too long">>] /\ UNCHANGED objs
     ELSE IF oidstr # NoOid
     THEN Register(type, oidstr, context, lib, "Error registering variable with net-snmp!",
                   IF keep THEN "var" ELSE "dropped",
                   Value(IF type \in StringTypes THEN NewStr(type, initval, oidstr, writable)
                         ELSE NewVar(type, long, "", initval, oidstr, writable)))
     ELSE exc' = NoExc /\ UNCHANGED objs
  /\ var' = IF exc' # NoExc THEN var
            ELSE IF type \in StringTypes THEN Held(NewStr(type, initval, oidstr, writable), keep)
            ELSE Held(NewVar(type, long, "", initval, oidstr, writable), keep)
  /\ incs' = IF exc' = NoExc /\ keep THEN 0 ELSE incs
  /\ UNCHANGED <<config, testenv, status, pc, started, dispatch, table>>

\* netsnmpvartypes.Gauge32(): the classes of netsnmpvartypes.py take an
\* initval only and register nothing
Gauge32(initval, long, keep) ==
  /\ pc = "idle"
  /\ MayKeep(keep)
  /\ last' = "create"
  /\ notes' = "none"
  /\ failed' = FALSE
  /\ ret' = None
  /\ pdu' = NoPdu
  /\ exc' = NoExc
  /\ var' = Held(NewVar("Gauge32", long, "", initval, NoOid, TRUE), keep)
  /\ incs' = IF keep THEN 0 ELSE incs
  /\ UNCHANGED <<config, testenv, status, objs, pc, started, dispatch, table>>

OSError == [type |-> "OSError", msg |-> <<"illegal IP address string passed to inet_aton">>]

\* IpAddress(), on a build with the given byte order: update(initval)
\* comes before the registration
IpAddress(initval, oidstr, writable, context, lib, order, keep) ==
  /\ pc = "idle"
  /\ MayKeep(keep)
  /\ last' = "create"
  /\ notes' = "none"
  /\ failed' = FALSE
  /\ ret' = None
  /\ pdu' = NoPdu
  /\ IF ~inet_aton_ok(UpdateAddr(initval))
     THEN exc' = OSError /\ UNCHANGED objs
     ELSE IF oidstr # NoOid
     THEN Register("IpAddress", oidstr, context, lib, "Error registering variable with net-snmp!",
                   IF keep THEN "var" ELSE "dropped",
                   Value(NewIpAddress(0, order, initval, oidstr, writable)))
     ELSE exc' = NoExc /\ UNCHANGED objs
  /\ var' = IF exc' = NoExc THEN Held(NewIpAddress(0, order, initval, oidstr, writable), keep) ELSE var
  /\ incs' = IF exc' = NoExc /\ keep THEN 0 ELSE incs
  /\ UNCHANGED <<config, testenv, status, pc, started, dispatch, table>>

\* Table.value(): a dict with the entry 0 of the columns and an entry of
\* each row
TableValue(rows) == [type |-> "dict", int |-> Zero, str |-> <<>>, coll |-> 0..rows]

\* Table(): oidstr is mandatory, the default rows are added before the
\* registration is prepared, and counterobj is set to 0 after it
Table(oidstr, counterobj, context, lib, keep) ==
  /\ pc = "idle"
  /\ counterobj = "var" => keep
  /\ counterobj = "var" => var.type \in IntTypes
  /\ last' = "create"
  /\ notes' = "none"
  /\ failed' = FALSE
  /\ ret' = None
  /\ IF lib = "add_default_row"
     THEN /\ exc' = netsnmpAgentException(<<"netsnmp_table_set_add_default_row() failed!">>)
          /\ UNCHANGED objs
     ELSE Register("Table", oidstr, context, lib, "Error code while registering table with net-snmp!",
                   IF keep THEN "table" ELSE "dropped", TableValue(0))
  /\ IF exc' = NoExc
     THEN /\ table' = IF keep THEN [made |-> TRUE, rows |-> 0, counterobj |-> counterobj] ELSE table
          /\ var' = IF counterobj = "var" THEN Update(var, int(Zero)) ELSE var
          /\ incs' = IF counterobj = "var" THEN 0 ELSE incs
     ELSE UNCHANGED <<table, var, incs>>
  /\ UNCHANGED <<config, testenv, status, pc, started, dispatch, pdu>>

addRow_Uncounted(lib) ==
  /\ pc = "idle"
  /\ table.made
  /\ table.rows < MaxRows
  /\ last' = "addRow"
  /\ notes' = "none"
  /\ failed' = FALSE
  /\ ret' = None
  /\ IF lib = "varlist_add_variable"
     THEN /\ exc' = netsnmpAgentException(<<"snmp_varlist_add_variable() failed!">>)
          /\ UNCHANGED <<table, var>>
     ELSE /\ exc' = NoExc
          /\ table' = [table EXCEPT !.rows = @ + 1]
          /\ var' = var
  /\ UNCHANGED <<config, testenv, status, objs, pc, started, dispatch, incs, pdu>>

\* Table.addRow(): the row is made, added to the dataset and counted
addRow(lib) ==
  /\ pc = "idle"
  /\ table.made
  /\ table.rows < MaxRows
  /\ last' = "addRow"
  /\ notes' = "none"
  /\ failed' = FALSE
  /\ ret' = None
  /\ IF lib = "varlist_add_variable"
     THEN /\ exc' = netsnmpAgentException(<<"snmp_varlist_add_variable() failed!">>)
          /\ UNCHANGED <<table, var>>
     ELSE /\ exc' = NoExc
          /\ table' = [table EXCEPT !.rows = @ + 1]
          /\ var' = IF table.counterobj = "var" THEN Update(var, int(Add(Value(var).int, One))) ELSE var
  /\ UNCHANGED <<config, testenv, status, objs, pc, started, dispatch, incs, pdu>>

\* Table.clear(): every row is removed and the counter set to 0
clear ==
  /\ pc = "idle"
  /\ table.made
  /\ last' = "clear"
  /\ notes' = "none"
  /\ failed' = FALSE
  /\ ret' = None
  /\ exc' = NoExc
  /\ table' = [table EXCEPT !.rows = 0]
  /\ var' = IF table.counterobj = "var" THEN Update(var, int(Zero)) ELSE var
  /\ UNCHANGED <<config, testenv, status, objs, pc, started, dispatch, incs, pdu>>

\* ------------------------------------------------------------------------
\* Methods of the variable objects
\* ------------------------------------------------------------------------

\* value()
value ==
  /\ pc = "idle"
  /\ var # NoVar
  /\ last' = "value"
  /\ notes' = "none"
  /\ failed' = FALSE
  /\ exc' = NoExc
  /\ ret' = Value(var)
  /\ UNCHANGED <<config, testenv, status, objs, pc, started, dispatch, var, incs, table, pdu>>

\* cref(is_table_index=...): what is returned is the C integer the
\* reference points to
cref(is_table_index) ==
  /\ pc = "idle"
  /\ var # NoVar
  /\ last' = "cref"
  /\ notes' = "none"
  /\ failed' = FALSE
  /\ exc' = NoExc
  /\ ret' = IF var.type \in StringTypes THEN str(Cref(var, is_table_index)) ELSE int(c_unsigned_value(Cref(var, is_table_index)))
  /\ UNCHANGED <<config, testenv, status, objs, pc, started, dispatch, var, incs, table, pdu>>

\* update(val): an int for the integer types, a str or None for IpAddress,
\* a str for the string types
update(val) ==
  /\ pc = "idle"
  /\ var # NoVar
  /\ (var.type \in IntTypes) = (val.type = "int")
  /\ var.type \in StringTypes => val.type = "str"
  /\ last' = "update"
  /\ notes' = "none"
  /\ failed' = FALSE
  /\ ret' = None
  /\ pdu' = NoPdu
  /\ IF var.type \in StringTypes
     THEN exc' = UpdateStrExc(var, val) /\ var' = Update(var, val)
     ELSE IF var.type = "IpAddress" /\ ~inet_aton_ok(UpdateAddr(val))
     THEN exc' = OSError /\ UNCHANGED var
     ELSE exc' = NoExc /\ var' = Update(var, val)
  /\ incs' = 0
  /\ UNCHANGED <<config, testenv, status, objs, pc, started, dispatch, table>>

\* increment(count): update(value() + count)
increment(count) ==
  /\ pc = "idle"
  /\ var # NoVar
  /\ HasIncrement(var.type)
  /\ incs < MaxIncrements
  /\ last' = "increment"
  /\ notes' = "none"
  /\ failed' = FALSE
  /\ ret' = None
  /\ pdu' = NoPdu
  /\ exc' = NoExc
  /\ var' = Update(var, int(Add(Value(var).int, count)))
  /\ incs' = incs + 1
  /\ UNCHANGED <<config, testenv, status, objs, pc, started, dispatch, table>>

\* ------------------------------------------------------------------------
\* The registry getters
\* ------------------------------------------------------------------------

\* getContexts(): the keys of self._objs
getContexts ==
  /\ pc = "idle"
  /\ last' = "getContexts"
  /\ notes' = "none"
  /\ failed' = FALSE
  /\ exc' = NoExc
  /\ ret' = [type |-> "dict_keys", int |-> Zero, str |-> <<>>, coll |-> objs.keys]
  /\ UNCHANGED <<config, testenv, status, objs, pc, started, dispatch, var, incs, table, pdu>>

\* snmpobj.value() of the object stored under (context, oidstr)
RegisteredValue(context, oidstr) == LET k == <<context, oidstr>>
                                    IN IF objs.who[k] = "var" THEN Value(var)
                                       ELSE IF objs.who[k] = "table" THEN TableValue(table.rows)
                                       ELSE CHOOSE val \in objs.val[k] : TRUE

\* getRegistered(context): self._objs[context] is read, and reading a
\* missing key of a defaultdict adds it; what is returned are the oidstrs
\* with the type names and the values of their objects
getRegistered(context) ==
  /\ pc = "idle"
  /\ last' = "getRegistered"
  /\ notes' = "none"
  /\ failed' = FALSE
  /\ exc' = NoExc
  /\ objs' = [objs EXCEPT !.keys = @ \cup {context}]
  /\ ret' = [type |-> "dict", int |-> Zero, str |-> <<>>,
             coll |-> {<<oidstr, [type |-> objs.at[<<context, oidstr>>], value |-> RegisteredValue(context, oidstr)]>> :
                          oidstr \in {o \in RegOids : objs.at[<<context, o>>] # NoObj}}]
  /\ UNCHANGED <<config, testenv, status, pc, started, dispatch, var, incs, table, pdu>>

\* ------------------------------------------------------------------------
\* SNMP requests, which net-snmp's watched-scalar handler answers inside
\* agent_check_and_process()
\* ------------------------------------------------------------------------

\* a SET of val on the registered object: the handler was registered with
\* handler_modes and writes into the buffer the watcher points to
snmpset(val) ==
  /\ pc = "agent_check_and_process"
  /\ cb = "none"
  /\ var.watcher
  /\ var.type \in IntTypes
  /\ InRange(var.type, val)
  /\ IF (var.modes \div HANDLER_CAN_SET) % 2 = 1
     THEN /\ var' = [var EXCEPT !.cvar = cvar_set(var.type, var.long, val), !.initval = None, !.updated = None]
          /\ pdu' = [op |-> "set", err |-> "noError", val |-> val, set |-> int(val)]
          /\ incs' = 0
     ELSE /\ pdu' = [op |-> "set", err |-> "notWritable", val |-> val, set |-> pdu.set]
          /\ UNCHANGED <<var, incs>>
  /\ UNCHANGED <<config, testenv, status, objs, api, notes, failed, dispatch, ret, table>>

\* a GET of the registered object: the handler reads the buffer
snmpget ==
  /\ pc = "agent_check_and_process"
  /\ cb = "none"
  /\ var.watcher
  /\ var.type \in IntTypes
  /\ pdu' = [op |-> "get", err |-> "noError", val |-> asn_value(var.type, var.cvar), set |-> pdu.set]
  /\ UNCHANGED <<config, testenv, status, objs, api, notes, failed, dispatch, var, ret, incs, table>>

\* ------------------------------------------------------------------------
\* netsnmpTestEnv.__del__ and the snmpd process
\* ------------------------------------------------------------------------

agent == <<config, status, objs, api, notes, failed, dispatch, values>>

\* snmpd creates its PID file in the temporary directory
snmpd_open_pidfile == /\ testenv.snmpd
                      /\ testenv.tmpdir
                      /\ testenv.pidfile = "absent"
                      /\ testenv' = [testenv EXCEPT !.pidfile = "empty"]
                      /\ UNCHANGED agent

\* snmpd writes its PID into the file
snmpd_write_pidfile == /\ testenv.snmpd
                       /\ testenv.pidfile = "empty"
                       /\ testenv' = [testenv EXCEPT !.pidfile = "written"]
                       /\ UNCHANGED agent

\* the snmpd process ends: killed, shut down after SIGTERM, or by itself
snmpd_exit == /\ testenv.snmpd
              /\ testenv' = [testenv EXCEPT !.snmpd = FALSE]
              /\ UNCHANGED agent

\* time.clock() moves on
clock == /\ testenv.pc = "wait_term"
         /\ ~testenv.ticked
         /\ testenv' = [testenv EXCEPT !.ticked = TRUE]
         /\ UNCHANGED agent

\* os.kill(pid, sig) for the process of snmpd: the environment after the
\* call, which goes on at pc next if the process exists and leaves the try
\* block with OSError if not
os_kill(env, sig, next) == IF env.snmpd
                           THEN [env EXCEPT !.pc = next,
                                            !.sigs = IF sig = 0 THEN @ ELSE Append(@, sig),
                                            !.sent = IF sig = 0 THEN @ ELSE Append(@, sig)]
                           ELSE [env EXCEPT !.pc = "rmtree",
                                            !.raised = TRUE,
                                            !.sent = IF sig = 0 THEN @ ELSE Append(@, sig)]

\* snmpcmd(op, oid): the client command succeeds only if snmpd answers in
\* time; otherwise its return code is not 0 and CalledProcessError is raised
snmpcmd(op, rc) == /\ testenv.pc \in {"alive", "done"}
                   /\ rc = 0 => testenv.snmpd
                   /\ testenv' = [testenv EXCEPT !.cmd = [op |-> op, rc |-> rc]]
                   /\ UNCHANGED agent

\* __del__: os.access(self.pidfile, os.R_OK)
del_access == /\ testenv.pc = "alive"
              /\ testenv' = [testenv EXCEPT !.pc = IF testenv.pidfile # "absent" THEN "read" ELSE "rmtree"]
              /\ UNCHANGED agent

\* __del__: pid = int(f.read()), which raises ValueError for an empty file
del_read == /\ testenv.pc = "read"
            /\ testenv' = IF testenv.pidfile = "written"
                          THEN [testenv EXCEPT !.pc = "sigterm"]
                          ELSE [testenv EXCEPT !.pc = "done", !.exc = "ValueError"]
            /\ UNCHANGED agent

\* __del__: starttime = time.clock(); os.kill(pid, signal.SIGTERM)
del_sigterm == /\ testenv.pc = "sigterm"
               /\ testenv' = os_kill([testenv EXCEPT !.ticked = FALSE], SIGTERM, "wait_term")
               /\ UNCHANGED agent

\* __del__: while time.clock() == starttime: os.kill(pid, 0)
del_wait_term == /\ testenv.pc = "wait_term"
                 /\ testenv' = IF testenv.ticked
                               THEN [testenv EXCEPT !.pc = "sigkill"]
                               ELSE os_kill(testenv, 0, "wait_term")
                 /\ UNCHANGED agent

\* __del__: os.kill(pid, signal.SIGKILL)
del_sigkill == /\ testenv.pc = "sigkill"
               /\ testenv' = os_kill(testenv, SIGKILL, "wait_kill")
               /\ UNCHANGED agent

\* __del__: while True: os.kill(pid, 0)
del_wait_kill == /\ testenv.pc = "wait_kill"
                 /\ testenv' = os_kill(testenv, 0, "wait_kill")
                 /\ UNCHANGED agent

\* __del__: if os.access(self.tmpdir, os.R_OK): shutil.rmtree(self.tmpdir)
del_rmtree == /\ testenv.pc = "rmtree"
              /\ testenv' = [testenv EXCEPT !.pc = "done", !.tmpdir = FALSE, !.pidfile = "absent"]
              /\ UNCHANGED agent

\* ------------------------------------------------------------------------
\* Specifications
\* ------------------------------------------------------------------------

\* log messages of net-snmp's AgentX subagent and one of each other kind
NetSnmpLog == {[priority |-> LOG_INFO, msg |-> <<TokVersion, TokConnected, TokLF>>],
               [priority |-> LOG_INFO, msg |-> <<TokConnected, TokLF>>],
               [priority |-> LOG_INFO, msg |-> <<TokDisconnected, TokLF>>],
               [priority |-> LOG_WARNING, msg |-> <<TokWarning, TokFailed, TokMaster, TokLF>>],
               [priority |-> LOG_ERR, msg |-> <<TokError, TokFailed, TokMaster, TokLF>>],
               [priority |-> LOG_WARNING, msg |-> <<TokVersion, TokLF>>],
               [priority |-> LOG_ERR, msg |-> <<TokVersion, TokLF>>],
               [priority |-> LOG_DEBUG, msg |-> <<TokVersion, TokLF>>],
               [priority |-> LOG_DEBUG + 1, msg |-> <<TokVersion, TokLF>>]}

\* the agent with its registry, notified with net-snmp's own messages; the
\* objects made are registered and not looked at again
Next == \/ snmp_log(NetSnmpLog)
        \/ snmp_index_stop
        \/ callback_return
        \/ start
        \/ start_return
        \/ check_and_process
        \/ check_and_process_return
        \/ shutdown
        \/ \E type \in ScalarTypes, oidstr \in OidStrs, context \in Contexts, lib \in LibOutcomes, long \in SizeofLong :
              create_vartype_class(type, None, oidstr, TRUE, context, lib, long, FALSE)
        \/ \E oidstr \in OidStrs, context \in Contexts, lib \in LibOutcomes, order \in ByteOrders :
              IpAddress(None, oidstr, TRUE, context, lib, order, FALSE)
        \/ \E oidstr \in RegOids, context \in Contexts, lib \in LibOutcomes \cup {"add_default_row"} :
              Table(oidstr, "None", context, lib, FALSE)

Spec == Init /\ [][Next]_vars

\* the connection status under every log message text
NextLog == \/ snmp_log(snmp_log_message)
           \/ snmp_index_stop
           \/ callback_return
           \/ start
           \/ start_return
           \/ check_and_process
           \/ check_and_process_return

SpecLog == Init /\ [][NextLog]_vars

\* netsnmpAgent() constructed with the default settings
InitDefault == Init /\ MasterSocket = "None" /\ LogHandler = "stdout"

\* the integers the variable objects are made and updated with: -1, 0, 1,
\* 42, 2^32 - 1, 2^32, 2^64 - 1 and 2^64
Ints == {MinusOne, Zero, One, PyInt(FALSE, <<42>>), ULONG_MAX, Add(ULONG_MAX, One),
         PyInt(FALSE, <<255, 255, 255, 255, 255, 255, 255, 255>>), PyInt(FALSE, <<0, 0, 0, 0, 0, 0, 0, 0, 1>>)}

\* the parts of the address strings: "0", "255" and, with a leading zero,
\* "010"
IpParts == {<<0>>, <<2, 5, 5>>, <<0, 1, 0>>}

\* the address arguments: None, "", every string of four parts and
\* "256.0.0.0"
Addrs == {None, str(<<>>), str(<<<<2, 5, 6>>, <<0>>, <<0>>, <<0>>>>)} \cup {str(s) : s \in [1..4 -> IpParts]}

\* the counts increment() is called with: 1 and 2^32
Counts == {One, Add(ULONG_MAX, One)}

\* the integer arguments
IntArgs == {int(v) : v \in Ints}

\* the string of n bytes "a"
Repeat(n) == [i \in 1..n |-> 97]

\* the string arguments: "", "a", "ab", "a\0b", and the strings of
\* MAX_STRING_SIZE and MAX_STRING_SIZE + 1 bytes
Strs == {str(<<>>), str(<<97>>), str(<<97, 98>>), str(<<97, 0, 98>>), str(Repeat(MAX_STRING_SIZE)), str(Repeat(MAX_STRING_SIZE + 1))}

\* the arguments update() of an object of the given type is called with
Vals(type) == IF type = "IpAddress" THEN Addrs
              ELSE IF type \in StringTypes THEN Strs
              ELSE IntArgs

\* one variable object under these values, with the SNMP requests made
\* for it while agent_check_and_process() runs
NextObj == \/ /\ var = NoVar
              /\ \E type \in IntTypes \ {"Gauge32"}, initval \in {None} \cup IntArgs, oidstr \in OidStrs, writable \in BOOLEAN, long \in SizeofLong :
                    create_vartype_class(type, initval, oidstr, writable, "", "ok", long, TRUE)
           \/ /\ var = NoVar
              /\ \E type \in StringTypes, initval \in {None} \cup Strs, oidstr \in OidStrs, writable \in BOOLEAN :
                    create_vartype_class(type, initval, oidstr, writable, "", "ok", 0, TRUE)
           \/ /\ var = NoVar
              /\ \E initval \in {None} \cup IntArgs, long \in SizeofLong : Gauge32(initval, long, TRUE)
           \/ /\ var = NoVar
              /\ \E initval \in Addrs, oidstr \in OidStrs, writable \in BOOLEAN, order \in ByteOrders :
                    IpAddress(initval, oidstr, writable, "", "ok", order, TRUE)
           \/ value
           \/ \E is_table_index \in BOOLEAN : cref(is_table_index)
           \/ \E val \in Vals(var.type) : update(val)
           \/ \E count \in Counts : increment(count)
           \/ check_and_process
           \/ check_and_process_return
           \/ \E val \in Ints : snmpset(val)
           \/ snmpget

SpecObj == InitDefault /\ [][NextObj]_vars

\* the three messages the status is inferred from
ApiLog == {[priority |-> LOG_INFO, msg |-> <<TokConnected, TokLF>>],
           [priority |-> LOG_INFO, msg |-> <<TokDisconnected, TokLF>>],
           [priority |-> LOG_ERR, msg |-> <<TokError, TokFailed, TokMaster, TokLF>>]}

\* the whole API of an agent with one Counter32 or IpAddress object and one
\* Table, in every status
NextApi == \/ snmp_log(ApiLog)
           \/ snmp_index_stop
           \/ callback_return
           \/ start
           \/ start_return
           \/ check_and_process
           \/ check_and_process_return
           \/ shutdown
           \/ /\ var = NoVar
              /\ \E oidstr \in OidStrs, context \in Contexts, lib \in LibOutcomes, long \in SizeofLong :
                    create_vartype_class("Counter32", None, oidstr, TRUE, context, lib, long, TRUE)
           \/ /\ var = NoVar
              /\ \E oidstr \in OidStrs, context \in Contexts, lib \in LibOutcomes, order \in ByteOrders :
                    IpAddress(None, oidstr, TRUE, context, lib, order, TRUE)
           \/ /\ ~table.made
              /\ \E oidstr \in RegOids, counterobj \in {"None", "var"}, context \in Contexts, lib \in LibOutcomes \cup {"add_default_row"} :
                    Table(oidstr, counterobj, context, lib, TRUE)
           \/ \E lib \in {"ok", "varlist_add_variable"} : addRow(lib)
           \/ clear
           \/ value
           \/ cref(FALSE)
           \/ update(IF var.type = "IpAddress" THEN str(<<<<1, 0>>, <<0>>, <<0>>, <<1>>>>) ELSE int(One))
           \/ increment(One)
           \/ getContexts
           \/ \E context \in Contexts : getRegistered(context)

SpecApi == InitDefault /\ [][NextApi]_vars

\* the test environment from the return of its constructor: the snmpd
\* process and __del__ in every interleaving
NextEnv == \/ \E op \in {"get", "walk", "table"}, rc \in {0, 1} : snmpcmd(op, rc)
           \/ snmpd_open_pidfile
           \/ snmpd_write_pidfile
           \/ snmpd_exit
           \/ clock
           \/ del_access
           \/ del_read
           \/ del_sigterm
           \/ del_wait_term
           \/ del_sigkill
           \/ del_wait_kill
           \/ del_rmtree

SpecEnv == InitDefault /\ [][NextEnv]_vars

\* every step of __del__ is taken in the end, time.clock() moves on, and a
\* process that got SIGKILL ends
SpecEnvFair == /\ SpecEnv
               /\ WF_vars(del_access)
               /\ WF_vars(del_read)
               /\ WF_vars(del_sigterm)
               /\ WF_vars(del_wait_term)
               /\ WF_vars(del_sigkill)
               /\ WF_vars(del_wait_kill)
               /\ WF_vars(del_rmtree)
               /\ WF_vars(clock)
               /\ WF_vars(snmpd_exit /\ testenv.sigs # <<>> /\ testenv.sigs[Len(testenv.sigs)] = SIGKILL)

\* ------------------------------------------------------------------------
\* Properties
\* ------------------------------------------------------------------------

Returned(id) == cb = "returned" /\ cbid = id
IndexStopCb == <<SNMP_CALLBACK_APPLICATION, SNMPD_CALLBACK_INDEX_STOP>>
KnownLevel(m) == m.priority \in LOG_EMERG..LOG_DEBUG
Contains(t, tok) == \E i \in DOMAIN t : t[i] = tok
StartsWith(t, tok) == t # <<>> /\ t[1] = tok
IsFailureMessage(m) == m.priority \in {LOG_WARNING, LOG_ERR} /\ MatchFailed(MsgText(m))
StartReturned == pc = "idle" /\ last = "start" /\ notes # "skipped"
IsRegistration == \/ \E type \in ScalarTypes, oidstr \in RegOids, context \in Contexts, lib \in LibOutcomes, long \in SizeofLong :
                        create_vartype_class(type, None, oidstr, TRUE, context, lib, long, FALSE)
                  \/ \E oidstr \in RegOids, context \in Contexts, lib \in LibOutcomes, order \in ByteOrders :
                        IpAddress(None, oidstr, TRUE, context, lib, order, FALSE)
                  \/ \E oidstr \in RegOids, context \in Contexts, lib \in LibOutcomes \cup {"add_default_row"} :
                        Table(oidstr, "None", context, lib, FALSE)

\* C1: once start() has been called the status is never Registration again,
\* and whenever the status is not Registration every attempt to register a
\* scalar, an IpAddress or a Table raises netsnmpAgentException in that very
\* call and leaves the registry as it was.
C1_RegistrationOnlyBeforeStart == /\ [](started # "never" => status # REGISTRATION)
                                  /\ [][(IsRegistration /\ status # REGISTRATION) => (exc'.type = "netsnmpAgentException" /\ objs' = objs)]_vars

C1_Witness == /\ started # "never"
              /\ pc = "idle"
              /\ last = "create"
              /\ status # REGISTRATION
              /\ exc = netsnmpAgentException(<<"Attempt to register SNMP object after agent has been started!">>)

\* C2: when the first start() of an agent returns and the last thing it was
\* notified of in init_snmp() was a Warning or Error message with the
\* connect-failure text received in status FirstConnect, the status is
\* ConnectFailed and start() raises netsnmpAgentException with a message
\* that contains MasterSocket.
C2_FailedFirstConnectRaises == (StartReturned /\ started = "once" /\ notes = "failure")
                               => (/\ status = CONNECTFAILED
                                   /\ exc.type = "netsnmpAgentException"
                                   /\ Contains(exc.msg, MasterSocket))

C2_Witness == /\ StartReturned
              /\ started = "once"
              /\ notes = "failure"
              /\ status = CONNECTFAILED
              /\ exc = netsnmpAgentException(ConnectErrorMsg(MasterSocket))

\* C3: an Info message whose text contains "AgentX subagent connected"
\* anywhere, received in status FirstConnect, sets the status to Connected.
C3_ConnectedAnywhereInText == (/\ Returned(LogCb)
                               /\ cbprev = FIRSTCONNECT
                               /\ serverarg.priority = LOG_INFO
                               /\ Contains(serverarg.msg, TokConnected))
                              => status = CONNECTED

\* C4: when the first start() of an agent returns without any notification
\* having been delivered in init_snmp(), the status is FirstConnect and
\* start() has raised nothing.
C4_SilentStartSucceeds == (StartReturned /\ started = "once" /\ notes = "none")
                          => (status = FIRSTCONNECT /\ exc = NoExc)

C4_Witness == /\ StartReturned
              /\ started = "once"
              /\ notes = "none"
              /\ status = FIRSTCONNECT
              /\ exc = NoExc

\* C5: the status becomes ConnectFailed only in a step from FirstConnect,
\* and a connect-failure message handled in any other status leaves the
\* status unchanged.
C5_ConnectFailedOnlyFromFirstConnect == /\ [][(status' = CONNECTFAILED /\ status # CONNECTFAILED) => status = FIRSTCONNECT]_vars
                                        /\ []((Returned(LogCb) /\ IsFailureMessage(serverarg) /\ cbprev # FIRSTCONNECT) => status = cbprev)

C5_Witness == /\ Returned(LogCb)
              /\ IsFailureMessage(serverarg)
              /\ cbprev = RECONNECTING
              /\ status = RECONNECTING

\* C6: from Connected an Info message starting with "AgentX master
\* disconnected us" sets the status to Reconnecting, from Reconnecting an
\* Info message starting with "AgentX subagent connected" sets it to
\* Connected, and no step taken in Connected or Reconnecting leads to
\* ConnectFailed.
C6_DisconnectReconnect == /\ []((/\ Returned(LogCb)
                                 /\ serverarg.priority = LOG_INFO
                                 /\ cbprev = CONNECTED
                                 /\ StartsWith(serverarg.msg, TokDisconnected)) => status = RECONNECTING)
                          /\ []((/\ Returned(LogCb)
                                 /\ serverarg.priority = LOG_INFO
                                 /\ cbprev = RECONNECTING
                                 /\ StartsWith(serverarg.msg, TokConnected)) => status = CONNECTED)
                          /\ [][(status \in {CONNECTED, RECONNECTING}) => (status' # CONNECTFAILED)]_vars

C6_Witness == /\ Returned(LogCb)
              /\ serverarg.priority = LOG_INFO
              /\ cbprev = RECONNECTING
              /\ StartsWith(serverarg.msg, TokConnected)
              /\ status = CONNECTED

\* C7: the index-stop callback called with minorID
\* SNMPD_CALLBACK_INDEX_STOP in status Connected sets the status to
\* Reconnecting.
C7_IndexStopReconnects == (Returned(IndexStopCb) /\ cbprev = CONNECTED) => status = RECONNECTING

C7_Witness == Returned(IndexStopCb) /\ cbprev = CONNECTED /\ status = RECONNECTING

\* C8: before start() has been called, a log message with the disconnect
\* text received in status Registration leaves the status at Registration.
C8_DisconnectIgnoredInRegistration == (/\ Returned(LogCb)
                                       /\ KnownLevel(serverarg)
                                       /\ started = "never"
                                       /\ cbprev = REGISTRATION
                                       /\ MatchDisconnected(MsgText(serverarg)))
                                      => status = REGISTRATION

\* C9: once the status is ConnectFailed no step changes it.
C9_ConnectFailedTerminal == [][(status = CONNECTFAILED) => (status' = CONNECTFAILED)]_vars

\* C10: a log message of one of the eight priorities whose text matches
\* none of the three patterns leaves the status unchanged and is passed to
\* the log sink with its priority name and text.
C10_UnmatchedPassedThrough == (/\ Returned(LogCb)
                               /\ KnownLevel(serverarg)
                               /\ ~MatchFailed(MsgText(serverarg))
                               /\ ~MatchConnected(MsgText(serverarg))
                               /\ ~MatchDisconnected(MsgText(serverarg)))
                              => (/\ status = cbprev
                                  /\ logcall = [sink |-> LogHandler, prio |-> priorities[serverarg.priority], text |-> MsgText(serverarg)])

\* C11: the status becomes Connected only from FirstConnect or
\* Reconnecting: a log message with the connected text handled in status
\* Registration or ConnectFailed does not set the status to Connected.
C11_ConnectedOnlyFromConnecting == (/\ Returned(LogCb)
                                    /\ KnownLevel(serverarg)
                                    /\ cbprev \in {REGISTRATION, CONNECTFAILED}
                                    /\ MatchConnected(MsgText(serverarg)))
                                   => status # CONNECTED

\* C12: the status becomes Reconnecting only from Connected: the
\* index-stop callback called in status Registration, FirstConnect or
\* ConnectFailed leaves the status unchanged.
C12_ReconnectingOnlyFromConnected == (/\ cb = "returned"
                                      /\ cbid[1] = SNMP_CALLBACK_APPLICATION
                                      /\ cbprev \in {REGISTRATION, FIRSTCONNECT, CONNECTFAILED})
                                     => status = cbprev

\* C13 as stated: every call of start(), in whatever status, sets the
\* status to FirstConnect and calls init_snmp().
C13_StartAlwaysConnects == [][start => (status' = FIRSTCONNECT /\ pc' = "init_snmp")]_vars

\* C13: a call of start() in a status other than Connected and
\* Reconnecting sets the status to FirstConnect and calls init_snmp() once,
\* and the status is inspected when that call returns; a call of start() in
\* status Connected or Reconnecting changes nothing and calls nothing.
C13_StartConnectsUnlessConnected == /\ [][(start /\ status \notin {CONNECTED, RECONNECTING}) => (status' = FIRSTCONNECT /\ pc' = "init_snmp")]_vars
                                    /\ [][(start /\ status \in {CONNECTED, RECONNECTING}) => (status' = status /\ pc' = "idle" /\ exc' = NoExc)]_vars
                                    /\ [][(pc = "init_snmp" /\ pc' # "init_snmp") => (/\ pc' = "idle"
                                                                                      /\ status' = status
                                                                                      /\ (exc' # NoExc) = (status = CONNECTFAILED))]_vars

C13_Witness == /\ started = "again"
               /\ last = "start"
               /\ pc = "init_snmp"
               /\ cb = "none"
               /\ notes = "none"
               /\ status = FIRSTCONNECT

\* C14: handling a notification never fails: a log message whose priority
\* is none of the eight known ones and an index-stop callback with another
\* minorID raise nothing and leave the status unchanged, and no callback
\* ever raises.
C14_HandlerNeverFails == /\ cb = "returned" => cbexc = "none"
                         /\ (cb = "returned" /\ ((cbid = LogCb /\ ~KnownLevel(serverarg)) \/ cbid = <<SNMP_CALLBACK_APPLICATION, OtherMinorID>>)) => status = cbprev

\* C15: when a LogHandler is configured, every log message of a known
\* priority handed to the log callback is passed to it, with the priority
\* name and the message text, in every status and for every text.
C15_LogHandlerAlwaysCalled == (Returned(LogCb) /\ KnownLevel(serverarg) /\ LogHandler = "LogHandler")
                              => logcall = [sink |-> "LogHandler", prio |-> priorities[serverarg.priority], text |-> MsgText(serverarg)]

\* the API calls that return without calling into net-snmp's init_snmp()
\* or agent_check_and_process()
PlainCalls == {"create", "value", "cref", "update", "increment", "addRow", "clear", "getRegistered", "getContexts", "shutdown"}

\* C16: the status changes only in a step of one of the two callbacks or in
\* the step of start() that sets FirstConnect and calls init_snmp(): making
\* and registering objects (whether it succeeds or raises), value(),
\* update(), increment(), addRow(), clear(), getRegistered(),
\* getContexts() and shutdown() leave it unchanged.
C16_StatusFrame == /\ [][(status' # status) => (\/ (cb = "none" /\ cb' = "returned")
                                                \/ (pc = "idle" /\ pc' = "init_snmp" /\ last' = "start" /\ status' = FIRSTCONNECT))]_vars
                   /\ [][(pc = "idle" /\ pc' = "idle" /\ last' \in PlainCalls) => status' = status]_vars

C16_Witness == /\ pc = "idle"
               /\ last = "addRow"
               /\ exc = NoExc
               /\ status = CONNECTED
               /\ table.counterobj = "var"
               /\ Value(var) = int(One)

Made == pc = "idle" /\ last = "create" /\ exc = NoExc /\ var # NoVar

\* update() has just returned without error
Updated == pc = "idle" /\ last = "update" /\ exc = NoExc /\ var # NoVar

\* the integer an object is made with: "initval" of the type's properties
\* is 0
InitInt(obj) == IF obj.initval = None THEN Zero ELSE obj.initval.int

\* C18: an Unsigned32, Counter32, Gauge32 or TimeTicks object made with the
\* integer initval v has the value v mod 2^32, and made without initval it
\* has the value 0.
C18_Unsigned32InitMod == (Made /\ var.type \in {"Unsigned32", "Counter32", "Gauge32", "TimeTicks"})
                         => Value(var) = int(And32(InitInt(var)))

\* C19: a Counter64 object made with the integer initval v has the value
\* v mod 2^64, which is v itself for 0 <= v < 2^64.
C19_Counter64InitMod == (Made /\ var.type = "Counter64")
                        => Value(var) = int(And64(InitInt(var)))

\* a string of four decimal numbers from 0 to 255 without leading zeros
DottedDecimal(s) == Len(s) = 4 /\ \A i \in 1..4 : \E n \in Byte : s[i] = Digits(n)

\* C20: an IpAddress made with a dotted-decimal string s, or updated with
\* one, returns s from value(); made or updated with an empty or missing
\* address it returns "0.0.0.0"; and cref(is_table_index=True) does not
\* change what value() returns.
C20_IpAddressRoundTrip == /\ []((Made /\ var.type = "IpAddress" /\ DottedDecimal(var.initval.str)) => Value(var) = var.initval)
                          /\ []((Made /\ var.type = "IpAddress" /\ var.initval \in {None, str(<<>>)}) => Value(var) = str(IP_0_0_0_0))
                          /\ []((Updated /\ var.type = "IpAddress" /\ DottedDecimal(var.updated.str)) => Value(var) = var.updated)
                          /\ []((Updated /\ var.type = "IpAddress" /\ var.updated \in {None, str(<<>>)}) => Value(var) = str(IP_0_0_0_0))
                          /\ [][(var.type = "IpAddress" /\ last' = "update" /\ exc' # NoExc)
                                 => \A val \in Addrs : update(val) => ~DottedDecimal(UpdateAddr(val))]_vars
                          /\ [][(var.type = "IpAddress" /\ last' = "cref" /\ cref(TRUE)) => Value(var') = Value(var)]_vars

C20_Witness == /\ pc = "idle"
               /\ last = "update"
               /\ exc = NoExc
               /\ var.type = "IpAddress"
               /\ var.order = "little"
               /\ var.updated = str(<<<<2, 5, 5>>, <<0>>, <<0>>, <<0>>>>)
               /\ Value(var) = str(<<<<2, 5, 5>>, <<0>>, <<0>>, <<0>>>>)

\* C21: when the teardown of a netsnmpTestEnv is over, the snmpd process it
\* started is not running, however the startup of snmpd and the teardown
\* interleave.
C21_SnmpdGoneAfterTeardown == testenv.pc = "done" => ~testenv.snmpd

\* __del__ found no readable PID file
NoPidFile == testenv.pc \in {"rmtree", "done"} /\ ~testenv.raised /\ testenv.exc = "none"

\* C30: the teardown terminates; SIGTERM is sent before SIGKILL; once the
\* process is found gone no signal is sent; the wait loops end when the
\* process is gone; when the teardown is over the temporary directory is
\* removed; and without a readable PID file no signal is sent and the
\* directory is removed all the same.
C30_TeardownTerminates == /\ (testenv.pc # "alive") ~> (testenv.pc = "done")
                          /\ [](testenv.sent \in {<<>>, <<SIGTERM>>, <<SIGTERM, SIGKILL>>})
                          /\ [][testenv.raised => testenv'.sent = testenv.sent]_vars
                          /\ (testenv.pc \in {"wait_term", "wait_kill"} /\ ~testenv.snmpd) ~> (testenv.pc \in {"rmtree", "done"})
                          /\ [](testenv.pc = "done" => ~testenv.tmpdir)
                          /\ [](NoPidFile => testenv.sent = <<>>)

\* C27: when a connect-failure notification has moved the status to
\* ConnectFailed during the init_snmp() call of start(), start() raises
\* netsnmpAgentException whatever is notified later in the same call.
C27_FailedStartAlwaysRaises == (StartReturned /\ failed)
                               => exc = netsnmpAgentException(ConnectErrorMsg(MasterSocket))


IsString == var.type \in StringTypes

\* the first n bytes the watcher serves from the buffer of the object
Stored(obj, n) == SubSeq(obj.cvar[1], 1, n)

\* C28: update(val) of an OctetString or DisplayString with a val longer
\* than the maximum size (1024) ends with an exception and leaves the
\* buffer and the data size as they were; with a val of at most the
\* maximum size it stores the bytes of val and sets the data size to
\* len(val); the data size never exceeds the maximum size.
C28_StringUpdateBounded == /\ [][\A val \in Strs : (IsString /\ update(val))
                                    => IF Len(val.str) > MAX_STRING_SIZE
                                       THEN exc' # NoExc /\ var'.cvar = var.cvar /\ var'.data_size = var.data_size
                                       ELSE Stored(var', Len(val.str)) = val.str /\ var'.data_size = Len(val.str)]_vars
                           /\ [](IsString => var.max_size = MAX_STRING_SIZE /\ var.data_size <= var.max_size)

C28_Witness == /\ IsString
               /\ last = "update"
               /\ exc # NoExc
               /\ var.watcher
               /\ var.data_size = 2
               /\ Stored(var, 2) = <<97, 98>>

\* C29: update(val) of an OctetString or DisplayString that was made
\* without an oidstr ends without an exception, value() is then val and the
\* data size is len(val).
C29_UnregisteredStringUpdate == [][\A val \in Strs : (IsString /\ ~var.watcher /\ Len(val.str) <= MAX_STRING_SIZE /\ update(val))
                                     => exc' = NoExc /\ Value(var') = str(u(val.str)) /\ var'.data_size = Len(val.str)]_vars

\* C26: getRegistered(context) changes nothing: getContexts() returns the
\* same contexts before and after it, also for a context nothing was
\* registered in.
C26_GetRegisteredPureRead == [][\A context \in Contexts : getRegistered(context) => objs'.keys = objs.keys]_vars

\* update() or increment() has just returned without error
Written == pc = "idle" /\ last \in {"update", "increment"} /\ exc = NoExc /\ var # NoVar

\* 0 <= v < 2^(8 * size)
Below(v, size) == ~v.neg /\ Len(v.b) <= size

\* an increment() step passes value() + count to update()
Accumulates == [][(pc = "idle" /\ pc' = "idle" /\ last' = "increment")
                  => \E count \in Counts : var'.updated = int(Add(Value(var).int, count))]_vars

\* C23: after update(v), and after increment(n) with v the sum of the value
\* before and n, the value of a Counter32 is v mod 2^32 and that of a
\* Counter64 is v mod 2^64; it lies in [0, 2^32) and [0, 2^64).
C23_CountersWrap == /\ []((Written /\ var.type = "Counter32")
                          => Value(var) = int(And32(var.updated.int)) /\ Below(Value(var).int, 4))
                    /\ []((Written /\ var.type = "Counter64")
                          => Value(var) = int(And64(var.updated.int)) /\ Below(Value(var).int, 8))
                    /\ Accumulates

C23_Witness == /\ Written
               /\ last = "increment"
               /\ var.type = "Counter32"
               /\ var.long = 8
               /\ var.updated = int(Add(ULONG_MAX, One))
               /\ Value(var) = int(Zero)

\* C24: after update(v), and after increment(n) with v the sum of the value
\* before and n, the value of a Gauge32 is v if 0 <= v < 2^32 and 2^32 - 1
\* if v >= 2^32; it lies in [0, 2^32 - 1].
C24_GaugeSaturates == /\ []((Written /\ var.type = "Gauge32")
                            => /\ Below(var.updated.int, 4) => Value(var) = var.updated
                               /\ (~var.updated.int.neg /\ ~Below(var.updated.int, 4)) => Value(var) = int(ULONG_MAX)
                               /\ Below(Value(var).int, 4))
                      /\ [][(pc = "idle" /\ pc' = "idle" /\ last' = "increment" /\ var.type = "Gauge32")
                            => \E count \in Counts : var'.updated = int(Add(Value(var).int, count))]_vars

C24_Witness == /\ Written
               /\ last = "increment"
               /\ var.type = "Gauge32"
               /\ var.long = 8
               /\ var.updated = int(Add(ULONG_MAX, One))
               /\ Value(var) = int(ULONG_MAX)

\* the number of rows as a Python int
RowCount(n) == int(PyInt(FALSE, IF n = 0 THEN <<>> ELSE <<n>>))

\* a step of a Table method of a table that counts its rows in the object
TableCall(method) == pc = "idle" /\ pc' = "idle" /\ last' = method /\ exc' = NoExc /\ table'.counterobj = "var"

Stores(type, oidstr, context) == /\ objs'.at[<<context, oidstr>>] = type
                                 /\ \A k \in DOMAIN objs.at : k # <<context, oidstr>>
                                       => objs'.at[k] = objs.at[k] /\ objs'.who[k] = objs.who[k] /\ objs'.val[k] = objs.val[k]

\* a constructor that returns registers its object if it has an oidstr
Registers(type, oidstr, context) == IF oidstr # NoOid THEN Stores(type, oidstr, context)
                                    ELSE objs' = objs

\* the entries of the registry under a context
Registered(context) == {oidstr \in RegOids : objs.at[<<context, oidstr>>] # NoObj}

\* the value of the object the registry holds under (context, oidstr): the
\* one the caller has as its variable object or as its table
CurrentValue(context, oidstr) == IF objs.who[<<context, oidstr>>] = "table" THEN TableValue(table.rows) ELSE Value(var)

\* C25: the entries of the registry change only in a constructor that
\* returns: it stores its object under its context and oidstr, replacing
\* the one stored there, and leaves every other entry alone, those of the
\* other contexts too; a constructor without oidstr and one that raises
\* store nothing.  getRegistered(context) returns exactly the oidstrs
\* stored under the context, each with the type name and the value() of
\* its object at the time of the call.
C25_GetRegisteredExact == /\ [][(objs'.at # objs.at \/ objs'.who # objs.who \/ objs'.val # objs.val)
                                => pc = "idle" /\ pc' = "idle" /\ last' = "create" /\ exc' = NoExc]_vars
                          /\ [][(pc = "idle" /\ last' = "create" /\ exc' # NoExc) => objs' = objs]_vars
                          /\ [][(pc = "idle" /\ last' = "create" /\ exc' = NoExc)
                                => \A oidstr \in OidStrs, context \in Contexts :
                                      /\ (\E long \in SizeofLong : create_vartype_class("Counter32", None, oidstr, TRUE, context, "ok", long, TRUE))
                                            => Registers("Counter32", oidstr, context)
                                      /\ (\E order \in ByteOrders : IpAddress(None, oidstr, TRUE, context, "ok", order, TRUE))
                                            => Registers("IpAddress", oidstr, context)
                                      /\ (\E counterobj \in {"None", "var"} : oidstr # NoOid /\ Table(oidstr, counterobj, context, "ok", TRUE))
                                            => Registers("Table", oidstr, context)]_vars
                          /\ [][\A context \in Contexts : getRegistered(context)
                                => /\ {e[1] : e \in ret'.coll} = Registered(context)
                                   /\ \A e \in ret'.coll : /\ e[2].type = objs.at[<<context, e[1]>>]
                                                            /\ e[2].value = CurrentValue(context, e[1])
                                   /\ objs'.at = objs.at]_vars

C25_Witness == /\ pc = "idle"
               /\ last = "getRegistered"
               /\ ret.coll = {<<"TEST-MIB::a", [type |-> "Counter32", value |-> int(One)]>>}
               /\ objs.at[<<"ctx", "TEST-MIB::a">>] = "Table"
====
